---- MODULE Spec2Model ----
(***************************************************************************)
(* MacPulse (src/macpulse.py): a single-shot monitor that samples host     *)
(* metrics, compares them with thresholds, filters the violations through  *)
(* a per-metric cooldown kept in a JSON state file, and sends one alert.   *)
(*                                                                         *)
(* Time is in whole seconds.  One RunMonitor step is one whole invocation  *)
(* of run_monitor(); Tick is the time that passes between invocations.     *)
(***************************************************************************)
EXTENDS Integers, Sequences, FiniteSets, TLC

VARIABLES
    clock,      \* time.time(), in seconds
    settings,   \* parsed settings.json
    stateFile,  \* the file at STATE_PATH
    run,        \* what the most recent run_monitor() did
    sentAt,     \* history: metric -> timestamp stored by the last delivered alert
    runs,       \* number of invocations so far
    call        \* the most recent direct call of a pure function

vars == <<clock, settings, stateFile, run, sentAt, runs, call>>

----------------------------------------------------------------------------
(* Bounds of the model *)

MaxCooldown == 1        \* cooldown_minutes ranges over 0..MaxCooldown
MaxRuns == 2            \* invocations per behaviour
Horizon == 62           \* seconds of clock explored after the start
MaxDeliveryDelay == 1   \* seconds a delivery call may take
MaxAlerts == 2          \* length of the alert lists given to the filter directly

(* Program constants *)

SecondsPerMinute == 60
DefaultCpuPercent == 90
DefaultMemoryPercent == 85
DefaultDiskPercent == 80
DefaultBatteryBelow == 20
DefaultTemperatureC == 90
DefaultCooldownMinutes == 30

MetricIds == {"cpu", "memory", "disk", "temperature", "battery"}

EmptyMap == [m \in {} |-> 0]

\* An optional value: {} is None, {v} is the value v.
None == {}
Some(v) == {v}
Val(o) == CHOOSE v \in o : TRUE

\* dict.get(key, default)
Get(d, k, default) == IF k \in DOMAIN d THEN d[k] ELSE default

\* dict.get(key): None when the key is missing
GetOpt(d, k) == IF k \in DOMAIN d THEN d[k] ELSE None

DefaultThresholds ==
    [cpu_percent |-> DefaultCpuPercent,
     memory_percent |-> DefaultMemoryPercent,
     disk_percent |-> DefaultDiskPercent,
     battery_below |-> DefaultBatteryBelow,
     temperature_c |-> DefaultTemperatureC]

----------------------------------------------------------------------------
(* The state file *)

AbsentFile == [kind |-> "absent", data |-> EmptyMap]
CorruptFile == [kind |-> "corrupt", data |-> EmptyMap]
JsonFile(state) == [kind |-> "json", data |-> state]

\* load_state(): {} when the file does not exist, the parsed mapping when it
\* holds JSON; json.load raises on anything else and nothing catches it.
load_state(file) ==
    [raised |-> file.kind = "corrupt",
     value |-> IF file.kind = "json" THEN file.data ELSE EmptyMap]

\* save_state(state): open(STATE_PATH, "w") truncates the file in place, then
\* json.dump writes the mapping.  io is what the file system does:
\*   "ok"          the mapping is written,
\*   "open_fails"  open() raises, the file is untouched,
\*   "write_fails" the file was truncated and the write raises,
\*   "killed"      the process is terminated after the truncation and before
\*                 the buffered text reaches the file.
save_state(file, state, io) ==
    [raised |-> io \in {"open_fails", "write_fails"},
     killed |-> io = "killed",
     file |-> CASE io = "open_fails" -> file
                [] io \in {"write_fails", "killed"} -> CorruptFile
                [] OTHER -> JsonFile(state)]

----------------------------------------------------------------------------
(* Alert logic *)

\* One (metric_name, message) pair; the message carries the value and the
\* threshold that the f-string formats into it.
Alert(metric, value, threshold) ==
    <<metric, [value |-> value, threshold |-> threshold]>>

\* One numeric check with the gate on the enabled flag left out.
NumericCheck_IgnoresChecks(metrics, thresholds, checks, metric, key) ==
    IF GetOpt(metrics, metric) # None
       /\ key \in DOMAIN thresholds
       /\ Val(metrics[metric]) >= thresholds[key]
    THEN <<Alert(metric, Val(metrics[metric]), thresholds[key])>>
    ELSE <<>>

\* One numeric check with an exclusive boundary.
NumericCheck_Strict(metrics, thresholds, checks, metric, key) ==
    IF metric \in checks /\ GetOpt(metrics, metric) # None
       /\ key \in DOMAIN thresholds
       /\ Val(metrics[metric]) > thresholds[key]
    THEN <<Alert(metric, Val(metrics[metric]), thresholds[key])>>
    ELSE <<>>

\* Lines 182-184 (and 186-196): the check is enabled, the value is not None
\* and it has reached the threshold.  Where thresholds has no such key the
\* code raises KeyError (NumericRaises) and appends nothing.
NumericCheck(metrics, thresholds, checks, metric, key) ==
    IF metric \in checks /\ GetOpt(metrics, metric) # None
       /\ key \in DOMAIN thresholds
       /\ Val(metrics[metric]) >= thresholds[key]
    THEN <<Alert(metric, Val(metrics[metric]), thresholds[key])>>
    ELSE <<>>

\* The battery check with an exclusive boundary.
BatteryCheck_Strict(metrics, thresholds, checks) ==
    IF "battery" \in checks /\ GetOpt(metrics, "battery") # None
       /\ Val(metrics["battery"]).state # "charging"
       /\ "battery_below" \in DOMAIN thresholds
       /\ Val(metrics["battery"]).percent < thresholds.battery_below
    THEN <<Alert("battery", Val(metrics["battery"]).percent, thresholds.battery_below)>>
    ELSE <<>>

\* Lines 198-201.
BatteryCheck(metrics, thresholds, checks) ==
    IF "battery" \in checks /\ GetOpt(metrics, "battery") # None
       /\ Val(metrics["battery"]).state # "charging"
       /\ "battery_below" \in DOMAIN thresholds
       /\ Val(metrics["battery"]).percent <= thresholds.battery_below
    THEN <<Alert("battery", Val(metrics["battery"]).percent, thresholds.battery_below)>>
    ELSE <<>>

\* thresholds["cpu_percent"] raises KeyError when the key is missing; the
\* subscript is evaluated only after the two gates.
NumericRaises(metrics, thresholds, checks, metric, key) ==
    /\ metric \in checks
    /\ GetOpt(metrics, metric) # None
    /\ key \notin DOMAIN thresholds

\* thresholds["battery_below"] is evaluated only for a battery that is not
\* charging.
BatteryRaises(metrics, thresholds, checks) ==
    /\ "battery" \in checks
    /\ GetOpt(metrics, "battery") # None
    /\ Val(metrics["battery"]).state # "charging"
    /\ "battery_below" \notin DOMAIN thresholds

\* Whether check_thresholds ends with an exception.
check_thresholds_raises(metrics, thresholds, checks) ==
    \/ NumericRaises(metrics, thresholds, checks, "cpu", "cpu_percent")
    \/ NumericRaises(metrics, thresholds, checks, "memory", "memory_percent")
    \/ NumericRaises(metrics, thresholds, checks, "disk", "disk_percent")
    \/ NumericRaises(metrics, thresholds, checks, "temperature", "temperature_c")
    \/ BatteryRaises(metrics, thresholds, checks)

check_thresholds(metrics, thresholds, checks) ==
    NumericCheck(metrics, thresholds, checks, "cpu", "cpu_percent")
    \o NumericCheck(metrics, thresholds, checks, "memory", "memory_percent")
    \o NumericCheck(metrics, thresholds, checks, "disk", "disk_percent")
    \o NumericCheck(metrics, thresholds, checks, "temperature", "temperature_c")
    \o BatteryCheck(metrics, thresholds, checks)

\* The test of line 212 with the cooldown taken in seconds, not minutes.
CooldownElapsed_InSeconds(now, last, cooldown_minutes) ==
    now - last >= cooldown_minutes

\* The test of line 212 with an exclusive boundary.
CooldownElapsed_Strict(now, last, cooldown_minutes) ==
    now - last > cooldown_minutes * SecondsPerMinute

\* The test of line 212.
CooldownElapsed(now, last, cooldown_minutes) ==
    now - last >= cooldown_minutes * SecondsPerMinute

RECURSIVE filter_by_cooldown(_, _, _, _)
filter_by_cooldown(alerts, state, cooldown_minutes, now) ==
    IF alerts = <<>> THEN <<>>
    ELSE LET metric == Head(alerts)[1]
             last == Get(state, metric, 0)
             rest == filter_by_cooldown(Tail(alerts), state, cooldown_minutes, now)
         IN  IF CooldownElapsed(now, last, cooldown_minutes)
             THEN <<Head(alerts)>> \o rest
             ELSE rest

MetricsOf(alerts) == {alerts[i][1] : i \in DOMAIN alerts}

\* Lines 309-310 leaving the loop after the first metric.
advance_FirstOnly(state, to_send, now) ==
    IF to_send = <<>> THEN state
    ELSE [m \in DOMAIN state \cup {Head(to_send)[1]} |->
             IF m = Head(to_send)[1] THEN now ELSE state[m]]

\* for metric, _ in to_send: state[metric] = now
RECURSIVE advance(_, _, _)
advance(state, to_send, now) ==
    IF to_send = <<>> THEN state
    ELSE LET metric == Head(to_send)[1]
             updated == [m \in DOMAIN state \cup {metric} |->
                            IF m = metric THEN now ELSE state[m]]
         IN  advance(updated, Tail(to_send), now)

\* send_imessage(recipient, message): osascript's exit status decides the
\* result; subprocess.run raises TimeoutExpired after 30 s and nothing
\* catches it.  io is what the transport does: "ok", "nonzero", "timeout".
send_imessage(io) ==
    [raised |-> io = "timeout", value |-> io = "ok"]

----------------------------------------------------------------------------
(* run_monitor *)

\* Line 302 never taking the no-recipient branch.
HasRecipient_Always(recipient) == TRUE

\* if not recipient (line 302)
HasRecipient(recipient) == recipient # ""

\* Lines 308-311 moved out of the branch of the successful send.
PersistAfterSend_Always(sent, file, state, to_send, now, io) ==
    LET saved == save_state(file, advance(state, to_send, now), io)
    IN  [raised |-> saved.raised, killed |-> saved.killed, file |-> saved.file,
         saveCalls |-> 1]

\* Lines 307-314: the state is advanced and saved in the branch of a
\* successful send only.
PersistAfterSend(sent, file, state, to_send, now, io) ==
    IF sent
    THEN LET saved == save_state(file, advance(state, to_send, now), io)
         IN  [raised |-> saved.raised, killed |-> saved.killed,
              file |-> saved.file, saveCalls |-> 1]
    ELSE [raised |-> FALSE, killed |-> FALSE, file |-> file, saveCalls |-> 0]

\* What a run that has not started looks like.
NoRun ==
    [outcome |-> "None", exit |-> 0, alerts |-> <<>>, to_send |-> <<>>,
     filterNow |-> 0, sentNow |-> 0, loaded |-> EmptyMap,
     loadCalls |-> 0, sendCalls |-> 0, saveCalls |-> 0,
     sendIo |-> "none", saveIo |-> "none", raisedIn |-> "none",
     failedSamplers |-> {}, mode |-> "none", created |-> FALSE,
     sampled |-> FALSE, quiet |-> {},
     before |-> AbsentFile, after |-> AbsentFile, sentBefore |-> EmptyMap,
     pending |-> [why |-> "none", metrics |-> {}]]

\* The metrics a run composed an alert for and did not deliver, and why:
\* the delivery call failed, or no recipient is configured.
Undelivered(r) ==
    IF r.sendCalls = 1 /\ r.sendIo # "ok"
    THEN [why |-> "send_failed", metrics |-> MetricsOf(r.to_send)]
    ELSE IF r.outcome = "NoRecipient"
    THEN [why |-> "no_recipient", metrics |-> MetricsOf(r.to_send)]
    ELSE [why |-> "none", metrics |-> {}]

\* One invocation of run_monitor() (lines 275-314) on state file `file` at
\* time `now`, with the sampled metrics and the behaviour of the transport
\* (sendIo, taking `delay` seconds) and of the file system (saveIo).  An
\* uncaught exception ends the process with exit status 1, a kill with the
\* status of the signal.
\* The enabled dimensions that were read in this run and are not among the
\* violations check_thresholds returned (lines 179-203).
Quiet(metrics, checks, alerts) ==
    {m \in checks : metrics[m] # None /\ m \notin MetricsOf(alerts)}

run_monitor(file, now, cfg, collected, sendIo, delay, saveIo) ==
    LET alerts == check_thresholds(collected.metrics, cfg.thresholds, cfg.checks)
        loading == load_state(file)
        state == loading.value
        to_send == filter_by_cooldown(alerts, state, cfg.cooldown_minutes, now)
        sending == send_imessage(sendIo)
        sentNow == now + delay
        persist == PersistAfterSend(sending.value, file, state, to_send, sentNow, saveIo)
        began == [NoRun EXCEPT !.before = file, !.after = file,
                               !.filterNow = now, !.sentNow = now,
                               !.failedSamplers = collected.failed,
                               !.mode = "monitor", !.sampled = TRUE]
        start == [began EXCEPT !.alerts = alerts,
                               !.quiet = Quiet(collected.metrics, cfg.checks, alerts)]
    IN  IF collected.raised
        THEN [began EXCEPT !.outcome = "Crashed", !.exit = 1,
                           !.raisedIn = "collect_metrics"]
        ELSE IF alerts = <<>>
        THEN [start EXCEPT !.outcome = "AllClear"]
        ELSE IF loading.raised
        THEN [start EXCEPT !.outcome = "Crashed", !.exit = 1, !.loadCalls = 1,
                          !.raisedIn = "load_state"]
        ELSE LET loaded == [start EXCEPT !.loadCalls = 1, !.loaded = state,
                                         !.to_send = to_send]
        IN  IF to_send = <<>>
            THEN [loaded EXCEPT !.outcome = "Suppressed"]
            ELSE IF ~HasRecipient(cfg.recipient)
            THEN [loaded EXCEPT !.outcome = "NoRecipient"]
            ELSE LET called == [loaded EXCEPT !.sendCalls = 1, !.sendIo = sendIo,
                                              !.sentNow = sentNow]
            IN  IF sending.raised
                THEN [called EXCEPT !.outcome = "Crashed", !.exit = 1,
                                    !.raisedIn = "send_imessage"]
                ELSE LET done == [called EXCEPT !.saveCalls = persist.saveCalls,
                                                !.after = persist.file,
                                                !.saveIo = IF persist.saveCalls = 1
                                                           THEN saveIo ELSE "none"]
                IN  IF persist.killed
                    THEN [done EXCEPT !.outcome = "Killed", !.exit = 137]
                    ELSE IF persist.raised
                    THEN [done EXCEPT !.outcome = "Crashed", !.exit = 1,
                                      !.raisedIn = "save_state"]
                    ELSE IF sending.value
                    THEN [done EXCEPT !.outcome = "Sent"]
                    ELSE [done EXCEPT !.outcome = "DeliveryFailed"]

\* One invocation of test_alert() (lines 317-328): sys.exit(1) without a
\* recipient or after a send that returned False, a normal return after a
\* send that returned True.
test_alert(file, now, cfg, sendIo) ==
    LET sending == send_imessage(sendIo)
        start == [NoRun EXCEPT !.mode = "test", !.before = file, !.after = file,
                               !.filterNow = now, !.sentNow = now]
    IN  IF ~HasRecipient(cfg.recipient)
        THEN [start EXCEPT !.outcome = "TestNoRecipient", !.exit = 1]
        ELSE LET called == [start EXCEPT !.sendCalls = 1, !.sendIo = sendIo]
        IN  IF sending.raised
            THEN [called EXCEPT !.outcome = "Crashed", !.exit = 1,
                                !.raisedIn = "send_imessage"]
            ELSE IF sending.value
            THEN [called EXCEPT !.outcome = "TestSent"]
            ELSE [called EXCEPT !.outcome = "TestFailed", !.exit = 1]

\* DEFAULT_SETTINGS (lines 32-49), as the settings file that load_settings
\* writes.
DefaultSettings ==
    [exists |-> TRUE,
     recipient |-> "",
     thresholds |-> DefaultThresholds,
     cooldown_minutes |-> DefaultCooldownMinutes,
     checks |-> MetricIds]

\* No settings file yet.
AbsentSettings == [DefaultSettings EXCEPT !.exists = FALSE]

\* load_settings() (lines 52-59): a missing file is created with the
\* defaults, and in either case the file is then read and returned.
load_settings(cfg) ==
    IF ~cfg.exists
    THEN [created |-> TRUE, settings |-> DefaultSettings]
    ELSE [created |-> FALSE, settings |-> cfg]

----------------------------------------------------------------------------
(* Inputs *)

Recipients == {"", "+15550100"}

\* The per-dimension enabled flags of settings.json, as the set of the
\* dimensions whose flag is true.
CheckSets == {MetricIds, {"battery"}}

\* What the samplers return in these runs: the CPU reading moves around its
\* threshold or is missing, the memory and the disk stay below theirs, no
\* temperature tool is installed, and the battery, when there is one, is
\* discharging at the threshold.
CpuReadings(threshold) == {None, Some(threshold - 1), Some(threshold)}
BatteryReadings(below) ==
    {None, Some([percent |-> below, state |-> "discharging"])}

\* One call of a sampler: the reading it returns, or the exception that
\* subprocess.run raises when the utility times out or is not installed and
\* that the sampler does not catch.
Sampled(reading) == [raised |-> FALSE, value |-> reading]
SamplerRaises == [raised |-> TRUE, value |-> None]

CpuSamples(threshold) ==
    {Sampled(r) : r \in CpuReadings(threshold)} \cup {SamplerRaises}
BatterySamples(below) ==
    {Sampled(r) : r \in BatteryReadings(below)} \cup {SamplerRaises}

\* collect_metrics(checks): the samplers of the enabled checks are called in
\* turn, nothing catches what one of them raises; one key per enabled check
\* (the load averages, which no check reads, are left out).
collect_metrics(checks, cpu, memory, disk, temperature, battery) ==
    LET sample == [k \in MetricIds |->
                     CASE k = "cpu" -> cpu
                       [] k = "memory" -> memory
                       [] k = "disk" -> disk
                       [] k = "temperature" -> temperature
                       [] OTHER -> battery]
        failed == {k \in checks : sample[k].raised}
    IN  [raised |-> failed # {},
         failed |-> failed,
         metrics |-> [k \in checks |-> sample[k].value]]

\* What the transport and the file system do in one run: a delivery takes
\* `delay` seconds, and the state file is written only after a delivery that
\* succeeded.
Environments ==
    {[send |-> "ok", delay |-> d, save |-> io] :
        d \in 0..MaxDeliveryDelay,
        io \in {"ok", "open_fails", "write_fails", "killed"}}
    \cup {[send |-> io, delay |-> d, save |-> "none"] :
        d \in 0..MaxDeliveryDelay, io \in {"nonzero", "timeout"}}

\* A run that returns before send_imessage (lines 293-305) consults neither
\* the transport nor the file system for writing.
NoEnvironment == [send |-> "none", delay |-> 0, save |-> "none"]
ReachesSend(file, now, cfg, collected) ==
    run_monitor(file, now, cfg, collected, "ok", 0, "ok").sendCalls = 1
EnvironmentsOf(file, now, cfg, collected) ==
    IF ReachesSend(file, now, cfg, collected) THEN Environments
    ELSE {NoEnvironment}

\* The clock starts later than any cooldown after the epoch.
StartClock ==
    (IF MaxCooldown > DefaultCooldownMinutes THEN MaxCooldown
     ELSE DefaultCooldownMinutes) * SecondsPerMinute
MaxClock == StartClock + Horizon
TickSteps == {SecondsPerMinute - 1, SecondsPerMinute}

----------------------------------------------------------------------------
(* The monitor, run after run *)

NoCall == [fn |-> "none"]

Init ==
    /\ clock = StartClock
    /\ settings \in [exists : {TRUE},
                     recipient : Recipients,
                     thresholds : {DefaultThresholds},
                     cooldown_minutes : 0..MaxCooldown,
                     checks : CheckSets] \cup {AbsentSettings}
    /\ stateFile = AbsentFile
    /\ run = NoRun
    /\ sentAt = EmptyMap
    /\ runs = 0
    /\ call = NoCall

\* Time passes between two invocations.
Tick ==
    /\ \E d \in TickSteps :
          /\ clock + d <= MaxClock
          /\ clock' = clock + d
    /\ UNCHANGED <<settings, stateFile, run, sentAt, runs, call>>

\* The scheduler invokes the monitor once.
RunMonitor ==
    /\ runs < MaxRuns
    /\ \E cpu \in CpuSamples(settings.thresholds.cpu_percent),
          battery \in BatterySamples(settings.thresholds.battery_below) :
          LET loaded == load_settings(settings)
              cfg == loaded.settings
              collected ==
                  collect_metrics(cfg.checks, cpu,
                                  Sampled(Some(cfg.thresholds.memory_percent - 1)),
                                  Sampled(Some(cfg.thresholds.disk_percent - 1)),
                                  Sampled(None), battery)
          IN  \E env \in EnvironmentsOf(stateFile, clock, cfg, collected) :
          LET r == run_monitor(stateFile, clock, cfg, collected,
                               env.send, env.delay, env.save)
          IN  /\ run' = [r EXCEPT !.sentBefore = sentAt,
                                  !.pending = Undelivered(run),
                                  !.created = loaded.created]
              /\ settings' = cfg
              /\ stateFile' = r.after
              /\ clock' = r.sentNow
              /\ sentAt' = IF r.outcome = "Sent"
                           THEN advance(sentAt, r.to_send, r.sentNow)
                           ELSE sentAt
    /\ runs' = runs + 1
    /\ UNCHANGED call

\* The operator invokes the program with --test.
TestAlert ==
    /\ runs < MaxRuns
    /\ \E sendIo \in {"ok", "nonzero", "timeout"} :
          LET loaded == load_settings(settings)
              r == test_alert(stateFile, clock, loaded.settings, sendIo)
          IN  /\ run' = [r EXCEPT !.sentBefore = sentAt,
                                  !.pending = Undelivered(run),
                                  !.created = loaded.created]
              /\ settings' = loaded.settings
    /\ runs' = runs + 1
    /\ UNCHANGED <<clock, stateFile, sentAt, call>>

Next == Tick \/ RunMonitor \/ TestAlert

Spec == Init /\ [][Next]_vars

----------------------------------------------------------------------------
(* filter_by_cooldown on its own, on any state, time and cooldown *)

FilterAlerts == {Alert("cpu", DefaultCpuPercent, DefaultCpuPercent),
                 Alert("memory", DefaultMemoryPercent, DefaultMemoryPercent)}

AlertLists == UNION {[1..n -> FilterAlerts] : n \in 0..MaxAlerts}

LastTimes == {0, 1, SecondsPerMinute}

NowTimes == {0} \cup UNION {{k * SecondsPerMinute - 1, k * SecondsPerMinute} :
                               k \in 1..(MaxCooldown + 1)}

CooldownStates ==
    UNION {[keys -> LastTimes] : keys \in SUBSET {"cpu", "memory"}}

InitFilter ==
    /\ clock = 0
    /\ settings = DefaultSettings
    /\ stateFile = AbsentFile
    /\ run = NoRun
    /\ sentAt = EmptyMap
    /\ runs = 0
    /\ call \in [fn : {"filter_by_cooldown"}, alerts : AlertLists,
                  state : CooldownStates, cooldown_minutes : 0..MaxCooldown,
                  now : NowTimes, done : {FALSE}, result : {<<>>}]

ApplyFilter ==
    /\ call.fn = "filter_by_cooldown"
    /\ ~call.done
    /\ call' = [call EXCEPT !.done = TRUE,
                            !.result = filter_by_cooldown(call.alerts, call.state,
                                                          call.cooldown_minutes, call.now)]
    /\ UNCHANGED <<clock, settings, stateFile, run, sentAt, runs>>

NextFilter == ApplyFilter

SpecFilter == InitFilter /\ [][NextFilter]_vars

----------------------------------------------------------------------------
(* check_thresholds on its own, on any snapshot, thresholds and checks *)

MaxValue == 2     \* readings and battery percentages range over 0..MaxValue

EvalNumbers == {None} \cup {Some(v) : v \in 0..MaxValue}

EvalBatteries ==
    {None} \cup {Some([percent |-> p, state |-> st]) :
                    p \in 0..MaxValue, st \in {"charging", "discharging"}}

\* The keys of the snapshot: all of them, or some missing.
EvalKeySets == {MetricIds, {"cpu", "temperature"}, {"memory", "disk", "battery"}}

EvalSnapshots ==
    {[k \in keys |->
        CASE k = "cpu" -> c
          [] k = "memory" -> m
          [] k = "disk" -> d
          [] k = "temperature" -> t
          [] OTHER -> b] :
     c \in EvalNumbers, m \in EvalNumbers, d \in EvalNumbers,
     t \in EvalNumbers, b \in EvalBatteries, keys \in EvalKeySets}

\* Thresholds inside the range of the readings, different from one dimension
\* to the next, and a settings file with no thresholds at all.
EvalThresholds ==
    {[cpu_percent |-> a, memory_percent |-> 3 - a, disk_percent |-> 3 - a,
      temperature_c |-> a, battery_below |-> c] : a \in 1..2, c \in 0..1}
    \cup {EmptyMap}

EvalCheckSets == {MetricIds, {"cpu", "disk", "battery"}, {"memory", "temperature"}}

InitEval ==
    /\ clock = 0
    /\ settings = DefaultSettings
    /\ stateFile = AbsentFile
    /\ run = NoRun
    /\ sentAt = EmptyMap
    /\ runs = 0
    /\ call \in [fn : {"check_thresholds"}, metrics : EvalSnapshots,
                  thresholds : EvalThresholds, checks : EvalCheckSets,
                  done : {FALSE}, raised : {FALSE}, result : {<<>>}]

ApplyCheck ==
    /\ call.fn = "check_thresholds"
    /\ ~call.done
    /\ LET raised == check_thresholds_raises(call.metrics, call.thresholds, call.checks)
       IN  call' = [call EXCEPT
                      !.done = TRUE,
                      !.raised = raised,
                      !.result = IF raised THEN <<>>
                                 ELSE check_thresholds(call.metrics, call.thresholds,
                                                       call.checks)]
    /\ UNCHANGED <<clock, settings, stateFile, run, sentAt, runs>>

NextEval == ApplyCheck

SpecEval == InitEval /\ [][NextEval]_vars

----------------------------------------------------------------------------
(* Properties *)

CooldownSeconds == settings.cooldown_minutes * SecondsPerMinute

Ran == run.outcome # "None"

\* The metrics of the alert that the run delivered.
Delivered(r) ==
    IF r.sendCalls = 1 /\ r.sendIo = "ok" THEN MetricsOf(r.to_send) ELSE {}

\* The run loaded the state and applied the cooldown filter.
ReachedFilter(r) == r.loadCalls = 1 /\ r.raisedIn # "load_state"

\* The mapping that lines 308-310 make of the loaded state.
Advanced(r) ==
    [m \in DOMAIN r.loaded \cup MetricsOf(r.to_send) |->
        IF m \in MetricsOf(r.to_send) THEN r.sentNow ELSE r.loaded[m]]

\* C1: a metric that a delivered alert stored timestamp t for is not delivered
\* again by any run that filters before t + cooldown_minutes*60; a run that
\* filters then with that metric as its only violation ends suppressed and
\* leaves the state file as it was.
C1_NoRepeatWithinCooldown ==
    Ran =>
      \A m \in DOMAIN run.sentBefore :
         run.filterNow < run.sentBefore[m] + CooldownSeconds =>
            /\ m \notin Delivered(run)
            /\ (ReachedFilter(run) /\ MetricsOf(run.alerts) = {m}) =>
                  /\ run.outcome = "Suppressed"
                  /\ run.sendCalls = 0
                  /\ run.after = run.before
                  /\ stateFile = run.before

\* A run one second before the end of the cooldown of its only violation.
C1_Witness ==
    /\ run.outcome = "Suppressed"
    /\ \E m \in DOMAIN run.sentBefore :
          /\ MetricsOf(run.alerts) = {m}
          /\ run.filterNow = run.sentBefore[m] + CooldownSeconds - 1

\* C2: a run whose delivery call fails leaves the state file as it was and
\* does not call save_state.
C2_FailedSendKeepsState ==
    (run.sendCalls = 1 /\ run.sendIo # "ok") =>
        /\ run.saveCalls = 0
        /\ run.after = run.before
        /\ stateFile = run.before

\* A failed delivery in a run that loaded timestamps of earlier alerts.
C2_Witness ==
    /\ run.outcome = "DeliveryFailed"
    /\ run.before.kind = "json"
    /\ stateFile = run.before

C4_RetryAfterFailedSend ==
    run.pending.why = "send_failed" =>
      \A m \in run.pending.metrics \cap MetricsOf(run.alerts) :
         /\ m \in MetricsOf(run.to_send)
         /\ run.sendCalls = 1
         /\ run.sendIo = "ok" => m \in Delivered(run)

\* A delivery that succeeds right after one that failed, under a cooldown.
C4_Witness ==
    /\ run.pending.why = "send_failed"
    /\ settings.cooldown_minutes > 0
    /\ run.outcome = "Sent"
    /\ run.pending.metrics \cap Delivered(run) # {}

\* C5: with no recipient configured, a run with eligible violations makes no
\* delivery call and no save_state call, leaves the state file as it was, and
\* the same violations pass the filter in the next run.
C5_NoRecipientKeepsState ==
    /\ (Ran /\ run.to_send # <<>> /\ settings.recipient = "") =>
          /\ run.outcome = "NoRecipient"
          /\ run.sendCalls = 0
          /\ run.saveCalls = 0
          /\ run.after = run.before
          /\ stateFile = run.before
    /\ run.pending.why = "no_recipient" =>
          \A m \in run.pending.metrics \cap MetricsOf(run.alerts) :
             m \in MetricsOf(run.to_send)

\* Two runs in a row that found the same violation and no recipient.
C5_Witness ==
    /\ run.outcome = "NoRecipient"
    /\ run.pending.why = "no_recipient"
    /\ run.pending.metrics \cap MetricsOf(run.to_send) # {}

\* The alerts of the call that the predicate keep is true of, in order.
RECURSIVE Kept(_, _)
Kept(alerts, keep) ==
    IF alerts = <<>> THEN <<>>
    ELSE IF Head(alerts)[1] \in keep
         THEN <<Head(alerts)>> \o Kept(Tail(alerts), keep)
         ELSE Kept(Tail(alerts), keep)

Filtered == call.fn = "filter_by_cooldown" /\ call.done

InResult(alert) == \E i \in DOMAIN call.result : call.result[i] = alert

\* C6: filter_by_cooldown keeps a violation for metric m if and only if
\* now - state.get(m, 0) >= cooldown_minutes*60: it drops one evaluated
\* cooldown_minutes*60 - 1 seconds after the stored timestamp and keeps one
\* evaluated exactly cooldown_minutes*60 seconds after it, and the result is
\* the kept violations in the order of the input.
C6_FilterKeepsIffElapsed ==
    Filtered =>
      LET limit == call.cooldown_minutes * SecondsPerMinute
          keep == {m \in MetricIds :
                     call.now - (IF m \in DOMAIN call.state THEN call.state[m] ELSE 0)
                        >= limit}
      IN  /\ call.result = Kept(call.alerts, keep)
          /\ \A i \in DOMAIN call.alerts :
                LET m == call.alerts[i][1]
                IN  m \in DOMAIN call.state =>
                       /\ call.now = call.state[m] + limit - 1
                             => ~InResult(call.alerts[i])
                       /\ call.now = call.state[m] + limit
                             => InResult(call.alerts[i])

\* One call that drops a violation a second before the end of its cooldown
\* and keeps another exactly at the end of its own.
C6_Witness ==
    /\ Filtered
    /\ call.cooldown_minutes > 0
    /\ Len(call.alerts) = 2
    /\ Len(call.result) = 1
    /\ \E i, j \in DOMAIN call.alerts :
          /\ call.alerts[i][1] \in DOMAIN call.state
          /\ call.alerts[j][1] \in DOMAIN call.state
          /\ call.now = call.state[call.alerts[i][1]]
                          + call.cooldown_minutes * SecondsPerMinute - 1
          /\ call.now = call.state[call.alerts[j][1]]
                          + call.cooldown_minutes * SecondsPerMinute
          /\ call.result = <<call.alerts[j]>>

C8_ZeroCooldownSuppressesNothing ==
    (Filtered /\ call.cooldown_minutes = 0) => call.result = call.alerts

\* C9: load_state returns the empty mapping when the state file is absent or
\* unparsable, and a run that finds such a file does not fail: it filters
\* with no history, every violation being eligible.
C9_UnreadableStateIsEmpty ==
    (run.loadCalls = 1 /\ run.before.kind \in {"absent", "corrupt"}) =>
        /\ run.raisedIn # "load_state"
        /\ run.loaded = EmptyMap
        /\ run.to_send = run.alerts

\* C10: a save_state that fails after a successful delivery is not fatal to
\* the run, which completes with exit status zero.
C10_SaveFailureNotFatal ==
    (run.saveCalls = 1 /\ run.saveIo \in {"open_fails", "write_fails"}) =>
        /\ run.sendIo = "ok"
        /\ run.raisedIn = "none"
        /\ run.exit = 0

\* C11: a sampler that fails makes only the reading of its dimension absent;
\* the run is not aborted and goes on to evaluate the other dimensions.
C11_SamplerFailureIsolated ==
    run.failedSamplers # {} =>
        run.raisedIn # "collect_metrics"

\* C12: save_state is called only in a run whose delivery call succeeded, a
\* run reads the state at most once and writes it at most once, and a run
\* with no violation, or whose violations are all suppressed, makes no
\* delivery call and no state write.
C12_WriteOnlyAfterDelivery ==
    /\ run.saveCalls = 1 => (run.sendCalls = 1 /\ run.sendIo = "ok")
    /\ stateFile # run.before => (run.sendCalls = 1 /\ run.sendIo = "ok")
    /\ run.loadCalls <= 1
    /\ run.saveCalls <= 1
    /\ run.outcome \in {"AllClear", "Suppressed"} =>
          /\ run.sendCalls = 0
          /\ run.saveCalls = 0
          /\ stateFile = run.before

\* A run with two violations, both suppressed, on a state file written before.
C12_Witness ==
    /\ run.outcome = "Suppressed"
    /\ Len(run.alerts) = 2
    /\ run.loadCalls = 1
    /\ run.before.kind = "json"
    /\ stateFile = run.before

\* C13: when the process is killed during save_state, the state file holds
\* the complete previous mapping or the complete new one.
C13_SaveAtomicUnderKill ==
    run.saveIo = "killed" =>
        \/ stateFile = run.before
        \/ stateFile = JsonFile(Advanced(run))

Evaluated == call.fn = "check_thresholds" /\ call.done

\* The reading of dimension k in the snapshot of the call, None if missing.
Reading(k) == GetOpt(call.metrics, k)

Fired == MetricsOf(call.result)

ThresholdKey(k) ==
    CASE k = "cpu" -> "cpu_percent"
      [] k = "memory" -> "memory_percent"
      [] k = "disk" -> "disk_percent"
      [] k = "temperature" -> "temperature_c"
      [] OTHER -> "battery_below"

\* C14: check_thresholds returns no violation for a dimension whose value is
\* missing or None or whose check is disabled, whatever the thresholds are,
\* and it raises only for a dimension whose value is there.
C14_AbsentOrDisabledNeverFires ==
    Evaluated =>
        /\ \A k \in MetricIds :
              (Reading(k) = None \/ k \notin call.checks) => k \notin Fired
        /\ call.raised =>
              \E k \in call.checks :
                 Reading(k) # None /\ ThresholdKey(k) \notin DOMAIN call.thresholds

\* One dimension enabled without a value, one with a value over its threshold
\* and disabled, while a third fires.
C14_Witness ==
    /\ Evaluated
    /\ Fired # {}
    /\ \E k \in call.checks : k \notin DOMAIN call.metrics
    /\ \E k \in call.checks : k \in DOMAIN call.metrics /\ call.metrics[k] = None
    /\ \E k \in {"cpu", "memory", "disk", "temperature"} \ call.checks :
          /\ Reading(k) # None
          /\ Val(Reading(k)) > call.thresholds[ThresholdKey(k)]

NumericIds == {"cpu", "memory", "disk", "temperature"}

\* C15: for cpu, memory, disk and temperature, with the check enabled and the
\* value present, check_thresholds returns a violation for the dimension if
\* and only if value >= threshold, whatever the other dimensions are, and no
\* dimension is returned twice.
C15_NumericFiresIffAtOrAbove ==
    (Evaluated /\ ~call.raised) =>
        /\ \A k \in NumericIds :
              (k \in call.checks /\ Reading(k) # None) =>
                 (k \in Fired <=> Val(Reading(k)) >= call.thresholds[ThresholdKey(k)])
        /\ Cardinality(Fired) = Len(call.result)

\* One dimension just below its threshold, one exactly at it, one above.
C15_Witness ==
    /\ Evaluated
    /\ ~call.raised
    /\ call.checks = MetricIds
    /\ \E i, j, k \in NumericIds :
          /\ Reading(i) # None /\ Reading(j) # None /\ Reading(k) # None
          /\ Val(Reading(i)) = call.thresholds[ThresholdKey(i)] - 1
          /\ Val(Reading(j)) = call.thresholds[ThresholdKey(j)]
          /\ Val(Reading(k)) = call.thresholds[ThresholdKey(k)] + 1
          /\ i \notin Fired /\ j \in Fired /\ k \in Fired

\* C16: with the battery check enabled and a battery reading present,
\* check_thresholds returns a battery violation if and only if the state is
\* not charging and percent <= battery_below; a charging battery does not
\* fire at percent 0 with battery_below 0.
C16_BatteryFiresIffLowAndNotCharging ==
    (Evaluated /\ ~call.raised /\ "battery" \in call.checks
       /\ Reading("battery") # None) =>
        LET batt == Val(Reading("battery"))
        IN  /\ "battery" \in Fired <=>
                  /\ batt.state # "charging"
                  /\ batt.percent <= call.thresholds.battery_below
            /\ batt.state = "charging" => "battery" \notin Fired

\* A battery that is not charging, exactly at battery_below.
C16_Witness ==
    /\ Evaluated
    /\ "battery" \in Fired
    /\ Val(Reading("battery")).state # "charging"
    /\ Val(Reading("battery")).percent = call.thresholds.battery_below

\* C17: send_imessage never raises, a transport failure is its result False;
\* a delivery failure in monitor mode ends the process with exit status zero,
\* and test mode exits non-zero exactly when the delivery fails or no
\* recipient is set.
C17_DeliveryNeverRaises ==
    /\ run.sendCalls = 1 => run.raisedIn # "send_imessage"
    /\ (run.mode = "monitor" /\ run.sendCalls = 1 /\ run.sendIo # "ok") =>
          run.exit = 0
    /\ run.mode = "test" =>
          (run.exit # 0 <=> (settings.recipient = "" \/ run.sendIo # "ok"))

\* C18: a run that finds no settings file writes the defaults and exits
\* without sampling, evaluating, composing an alert or touching the state.
C18_BootstrapExitsBeforeCycle ==
    run.created =>
        /\ settings = DefaultSettings
        /\ ~run.sampled
        /\ run.alerts = <<>>
        /\ run.to_send = <<>>
        /\ run.loadCalls = 0
        /\ run.saveCalls = 0
        /\ run.sendCalls = 0

\* C19: a metric read below its threshold in a run is not among the run's
\* violations nor in its message, and its stored last-alerted timestamp is
\* the same after the run as before it.
C19_QuietMetricKeepsTimestamp ==
    \A m \in run.quiet :
        /\ m \notin MetricsOf(run.alerts)
        /\ m \notin MetricsOf(run.to_send)
        /\ (run.before.kind = "json" /\ m \in DOMAIN run.before.data) =>
              /\ stateFile.kind = "json"
              /\ m \in DOMAIN stateFile.data
              /\ stateFile.data[m] = run.before.data[m]

\* C20: over the monitor runs the persisted state only grows: a run removes
\* no key, lowers no timestamp and adds only metric ids.
C20_StateOnlyGrows ==
    Ran =>
        /\ run.before.kind = "json" => stateFile.kind = "json"
        /\ \A m \in DOMAIN run.before.data :
              /\ m \in DOMAIN stateFile.data
              /\ stateFile.data[m] >= run.before.data[m]
        /\ DOMAIN stateFile.data \subseteq MetricIds

====
